---- MODULE Spec2Model ----
\* Model of the social-media content generator: the formatting utilities of
\* utils/formatter.py, the input normalisation of generate_content and the
\* script run of main() in app.py.
\*
\* A Python str is modelled as a sequence of one-character strings, so that
\* strip, lower, replace, split and join are computed character by character.
EXTENDS Integers, Sequences, FiniteSets, TLC

\* ---------------------------------------------------------------- bounds
\* longest string handed to _slugify
MaxLen == 3
\* longest string of a build_filename field and of the content to wrap
MaxShort == 1
\* longest string of a generate_content argument
MaxArg == 1
\* most entries of a metadata mapping, and longest metadata value
MaxMeta == 2
MaxVal == 1
\* longest text typed into a text input of the page
MaxField == 1

\* ------------------------------------------------------- strings of Python
\* None, a value that is no string (its element is not a character)
None == <<"None">>

\* every string over the alphabet A of length at most n
RECURSIVE StrUpTo(_, _)
StrUpTo(A, n) ==
    IF n = 0 THEN {<<>>}
    ELSE LET S == StrUpTo(A, n - 1)
         IN  S \cup {Append(s, c) : s \in {x \in S : Len(x) = n - 1}, c \in A}

\* str.isspace of one character
IsSpace(c) == c \in {" ", "\n", "\t"}

UpperLetters == <<"A", "B", "C", "G", "H", "I", "L", "M", "N", "O", "P", "R", "S", "T", "W", "Y">>
LowerLetters == <<"a", "b", "c", "g", "h", "i", "l", "m", "n", "o", "p", "r", "s", "t", "w", "y">>

\* str.lower of one character
LowerChar(c) ==
    IF \E i \in DOMAIN UpperLetters : UpperLetters[i] = c
    THEN LowerLetters[CHOOSE i \in DOMAIN UpperLetters : UpperLetters[i] = c]
    ELSE c

\* str.lower
lower(s) == [i \in 1..Len(s) |-> LowerChar(s[i])]

\* str.lstrip, str.rstrip and str.strip with no argument
RECURSIVE lstrip(_)
lstrip(s) == IF s # <<>> /\ IsSpace(Head(s)) THEN lstrip(Tail(s)) ELSE s

RECURSIVE rstrip(_)
rstrip(s) ==
    IF s # <<>> /\ IsSpace(s[Len(s)]) THEN rstrip(SubSeq(s, 1, Len(s) - 1)) ELSE s

strip(s) == rstrip(lstrip(s))

\* str.replace(old, new) for a one-character old
RECURSIVE replace(_, _, _)
replace(s, old, new) ==
    IF s = <<>> THEN <<>>
    ELSE (IF Head(s) = old THEN new ELSE <<Head(s)>>) \o replace(Tail(s), old, new)

\* str.split with no argument: the maximal runs of non-whitespace characters
RECURSIVE SplitFrom(_, _, _)
SplitFrom(s, cur, acc) ==
    IF s = <<>> THEN (IF cur = <<>> THEN acc ELSE Append(acc, cur))
    ELSE IF IsSpace(Head(s))
         THEN SplitFrom(Tail(s), <<>>, IF cur = <<>> THEN acc ELSE Append(acc, cur))
         ELSE SplitFrom(Tail(s), Append(cur, Head(s)), acc)

split(s) == SplitFrom(s, <<>>, <<>>)

\* sep.join(parts)
RECURSIVE join(_, _)
join(sep, parts) ==
    IF parts = <<>> THEN <<>>
    ELSE IF Len(parts) = 1 THEN parts[1]
    ELSE parts[1] \o sep \o join(sep, Tail(parts))

\* the list comprehension [p for p in parts if p]
NonEmptyParts(parts) == SelectSeq(parts, LAMBDA p : p # <<>>)

\* ------------------------------------------------------ utils/formatter.py
\* _slugify with the slash replaced after the tokens are joined, by a space
slugify_late_replace(value) ==
    IF value = <<>> THEN <<>>
    ELSE replace(join(<<"-">>, NonEmptyParts(split(lower(strip(value))))), "/", <<" ">>)

\* _slugify joining the tokens with a space
slugify_space_join(value) ==
    IF value = <<>> THEN <<>>
    ELSE LET cleaned == replace(lower(strip(value)), "/", <<"-">>)
         IN  join(<<" ">>, NonEmptyParts(split(cleaned)))

_slugify(value) ==
    IF value = <<>> THEN <<>>
    ELSE LET cleaned == replace(lower(strip(value)), "/", <<"-">>)
         IN  join(<<"-">>, NonEmptyParts(split(cleaned)))

\* the instants datetime.utcnow() is sampled at
Clock ==
    { [year |-> 2024, month |-> 1, day |-> 5, hour |-> 0, minute |-> 7, second |-> 9],
      [year |-> 2026, month |-> 11, day |-> 30, hour |-> 23, minute |-> 59, second |-> 58] }

DigitChars == <<"0", "1", "2", "3", "4", "5", "6", "7", "8", "9">>

\* a number as decimal digits, zero-padded to the width w
RECURSIVE Pad(_, _)
Pad(n, w) == IF w = 0 THEN <<>> ELSE Pad(n \div 10, w - 1) \o <<DigitChars[(n % 10) + 1]>>

\* t.strftime("%Y%m%d-%H%M%S")
strftime(t) ==
    Pad(t.year, 4) \o Pad(t.month, 2) \o Pad(t.day, 2) \o <<"-">>
        \o Pad(t.hour, 2) \o Pad(t.minute, 2) \o Pad(t.second, 2)

SocialContent == <<"s", "o", "c", "i", "a", "l", "-", "c", "o", "n", "t", "e", "n", "t">>
DotTxt == <<".", "t", "x", "t">>

\* build_filename that joins the slugs without dropping the empty ones
build_filename_keep_empty(business_type, platform, content_type, now) ==
    LET timestamp == strftime(now)
        parts == <<_slugify(business_type), _slugify(platform), _slugify(content_type)>>
        joined == join(<<"-">>, parts)
        base == IF joined # <<>> THEN joined ELSE SocialContent
    IN  base \o <<"-">> \o timestamp \o DotTxt

\* build_filename that puts the raw fields, not their slugs, into the name
build_filename_raw(business_type, platform, content_type, now) ==
    LET timestamp == strftime(now)
        parts == <<business_type, platform, content_type>>
        joined == join(<<"-">>, NonEmptyParts(parts))
        base == IF joined # <<>> THEN joined ELSE SocialContent
    IN  base \o <<"-">> \o timestamp \o DotTxt

\* now is the value datetime.utcnow() returns in the call
build_filename(business_type, platform, content_type, now) ==
    LET timestamp == strftime(now)
        parts == <<_slugify(business_type), _slugify(platform), _slugify(content_type)>>
        joined == join(<<"-">>, NonEmptyParts(parts))
        base == IF joined # <<>> THEN joined ELSE SocialContent
    IN  base \o <<"-">> \o timestamp \o DotTxt

\* bool(value) of a str or None
Truthy(value) == value # None /\ value # <<>>

TitleLine == <<"S", "o", "c", "i", "a", "l", " ", "M", "e", "d", "i", "a", " ", "C", "o", "n", "t", "e", "n", "t", " ", "G", "e", "n", "e", "r", "a", "t", "o", "r", " ", "O", "u", "t", "p", "u", "t">>
TitleRule == <<"-", "-", "-", "-", "-", "-", "-", "-", "-", "-", "-", "-", "-", "-", "-", "-", "-", "-", "-", "-", "-", "-", "-", "-", "-", "-", "-", "-", "-", "-", "-", "-", "-", "-">>
SectionLine == <<"G", "e", "n", "e", "r", "a", "t", "e", "d", " ", "C", "o", "n", "t", "e", "n", "t">>
SectionRule == <<"-", "-", "-", "-", "-", "-", "-", "-", "-", "-", "-", "-", "-", "-", "-", "-", "-">>

\* f"{key}: {value}"
MetaLine(key, value) == key \o <<":", " ">> \o value

\* the loop over meta.items() that renders every entry, empty values too
MetaLinesAll(meta) ==
    [i \in 1..Len(meta) |->
        MetaLine(meta[i][1], IF meta[i][2] = None THEN <<>> ELSE meta[i][2])]

\* the loop over meta.items(): one line per entry whose value is truthy;
\* meta is the mapping as the sequence of its (key, value) items
RECURSIVE MetaLines(_)
MetaLines(meta) ==
    IF meta = <<>> THEN <<>>
    ELSE (IF Truthy(meta[1][2]) THEN <<MetaLine(meta[1][1], meta[1][2])>> ELSE <<>>)
            \o MetaLines(Tail(meta))

wrap_content_for_download(content, meta) ==
    LET lines == <<TitleLine, TitleRule>> \o MetaLines(meta)
                    \o <<<<>>, SectionLine, SectionRule, <<>>, strip(content), <<>>>>
    IN  join(<<"\n">>, lines)

\* ------------------------------------------------------------------ app.py
NA == <<"N", "/", "A">>

\* the inputs mapping of generate_content with the tone lowercased, not trimmed
inputs_tone_untrimmed(business_type, target_audience, tone, platform, content_type, extra_instructions) ==
    [ business_type |-> strip(business_type),
      target_audience |-> strip(target_audience),
      tone |-> lower(tone),
      platform |-> strip(platform),
      content_type |-> lower(strip(content_type)),
      extra_instructions |->
          LET given == IF Truthy(extra_instructions) THEN extra_instructions ELSE <<>>
              trimmed == strip(given)
          IN  IF trimmed # <<>> THEN trimmed ELSE NA ]

\* the mapping generate_content hands to chain.invoke
inputs(business_type, target_audience, tone, platform, content_type, extra_instructions) ==
    [ business_type |-> strip(business_type),
      target_audience |-> strip(target_audience),
      tone |-> strip(lower(tone)),
      platform |-> strip(platform),
      content_type |-> lower(strip(content_type)),
      extra_instructions |->
          LET given == IF Truthy(extra_instructions) THEN extra_instructions ELSE <<>>
              trimmed == strip(given)
          IN  IF trimmed # <<>> THEN trimmed ELSE NA ]

\* ------------------------------------------------------------------- state
VARIABLES
    \* the widgets of the sidebar, kept by the session between script runs
    business_type, target_audience, tone, platform, content_type_label,
    extra_instructions,
    \* the run of main() that produced the page now shown
    generate_btn,      \* what st.button returned in the run
    calls,             \* remote generation requests issued by the run
    remote,            \* "none", "ok" or "raised": how chain.invoke ended
    prompt,            \* the inputs of the request, NoPrompt without one
    rendered,          \* the elements the run rendered below the divider
    output_text, download_text, filename,
    trigger,           \* what started the run: "load", "edit", "generate", "download"
    \* one call of a function of the repository on its own
    fn, args, ncalls, ret, ret2

pageVars == <<business_type, target_audience, tone, platform, content_type_label,
              extra_instructions, generate_btn, calls, remote, prompt, rendered,
              output_text, download_text, filename, trigger>>
fnVars == <<fn, args, ncalls, ret, ret2>>
vars == <<pageVars, fnVars>>

Professional == <<"P", "r", "o", "f", "e", "s", "s", "i", "o", "n", "a", "l">>
Casual == <<"C", "a", "s", "u", "a", "l">>
Inspirational == <<"I", "n", "s", "p", "i", "r", "a", "t", "i", "o", "n", "a", "l">>
Humorous == <<"H", "u", "m", "o", "r", "o", "u", "s">>
Tones == <<Professional, Casual, Inspirational, Humorous>>

Instagram == <<"I", "n", "s", "t", "a", "g", "r", "a", "m">>
LinkedIn == <<"L", "i", "n", "k", "e", "d", "I", "n">>
Twitter == <<"T", "w", "i", "t", "t", "e", "r">>
YouTube == <<"Y", "o", "u", "T", "u", "b", "e">>
Platforms == <<Instagram, LinkedIn, Twitter, YouTube>>

Caption == <<"C", "a", "p", "t", "i", "o", "n">>
PostIdeas == <<"P", "o", "s", "t", " ", "i", "d", "e", "a", "s">>
Hashtags == <<"H", "a", "s", "h", "t", "a", "g", "s">>
ReelsIdeas == <<"R", "e", "e", "l", "s", " ", "i", "d", "e", "a", "s">>
WeeklyPlan == <<"W", "e", "e", "k", "l", "y", " ", "p", "l", "a", "n">>
ContentTypeLabels == <<Caption, PostIdeas, Hashtags, ReelsIdeas, WeeklyPlan>>

\* content_type_label_map[label]
content_type_label_map(label) ==
    CASE label = Caption -> <<"c", "a", "p", "t", "i", "o", "n">>
      [] label = PostIdeas -> <<"p", "o", "s", "t", " ", "i", "d", "e", "a", "s">>
      [] label = Hashtags -> <<"h", "a", "s", "h", "t", "a", "g", "s">>
      [] label = ReelsIdeas -> <<"r", "e", "e", "l", "s", " ", "i", "d", "e", "a", "s">>
      [] label = WeeklyPlan -> <<"w", "e", "e", "k", "l", "y", " ", "p", "l", "a", "n">>

NoPrompt ==
    [ business_type |-> None, target_audience |-> None, tone |-> None,
      platform |-> None, content_type |-> None, extra_instructions |-> None ]

\* the page after the first script run: empty text fields, every selectbox at
\* index 0, the button not clicked
PageInit ==
    /\ business_type = <<>> /\ target_audience = <<>> /\ extra_instructions = <<>>
    /\ tone = Tones[1] /\ platform = Platforms[1]
    /\ content_type_label = ContentTypeLabels[1]
    /\ generate_btn = FALSE /\ calls = 0 /\ remote = "none" /\ prompt = NoPrompt
    /\ rendered = {} /\ trigger = "load"
    /\ output_text = <<>> /\ download_text = <<>> /\ filename = <<>>

NoCall == /\ fn = "none" /\ args = <<>> /\ ncalls = 0 /\ ret = <<>> /\ ret2 = <<>>

\* ------------------------------------------- the functions, called directly
SlugChar == {"a", "A", " ", "/", "-"}
ContentChar == {"a", " ", "\n"}
ValueChar == {"a", "\n"}
ArgChar == {"A", " "}

MetaKeys == {<<"K">>, <<"T">>, <<"K", "\n">>}
MetaValues == StrUpTo(ValueChar, MaxVal) \cup {None}

\* the ordered mappings of at most n entries: sequences of items, keys distinct
RECURSIVE MetasUpTo(_)
MetasUpTo(n) ==
    IF n = 0 THEN {<<>>}
    ELSE LET S == MetasUpTo(n - 1)
         IN  S \cup {Append(m, <<k, v>>) :
                        m \in {x \in S : Len(x) = n - 1 /\ n <= Cardinality(MetaKeys)},
                        k \in MetaKeys, v \in MetaValues}

DistinctKeys(m) == \A i, j \in 1..Len(m) : i # j => m[i][1] # m[j][1]

FnInit ==
    /\ PageInit
    /\ ncalls = 0 /\ ret = <<>> /\ ret2 = <<>>
    /\ \/ /\ fn = "_slugify"
          /\ args \in {<<s>> : s \in StrUpTo(SlugChar, MaxLen)}
       \/ /\ fn = "build_filename"
          /\ args \in StrUpTo(SlugChar, MaxShort) \X StrUpTo(SlugChar, MaxShort)
                        \X StrUpTo(SlugChar, MaxShort) \X Clock
       \/ /\ fn = "wrap_content_for_download"
          /\ args \in StrUpTo(ContentChar, MaxShort)
                        \X {m \in MetasUpTo(MaxMeta) : DistinctKeys(m)}
       \/ /\ fn = "generate_content"
          /\ args \in StrUpTo(ArgChar, MaxArg) \X StrUpTo(ArgChar, MaxArg)
                        \X StrUpTo(ArgChar, MaxArg) \X StrUpTo(ArgChar, MaxArg)
                        \X StrUpTo(ArgChar, MaxArg)
                        \X (StrUpTo(ArgChar, MaxArg) \cup {None})

\* _slugify(value)
CallSlugify ==
    /\ fn = "_slugify" /\ ncalls = 0
    /\ ret' = _slugify(args[1])
    /\ ncalls' = 1
    /\ UNCHANGED <<pageVars, fn, args, ret2>>

\* _slugify(slug) of the slug the first call returned
CallSlugifyAgain ==
    /\ fn = "_slugify" /\ ncalls = 1
    /\ ret2' = _slugify(ret)
    /\ ncalls' = 2
    /\ UNCHANGED <<pageVars, fn, args, ret>>

\* build_filename(business_type, platform, content_type) at the instant args[4]
CallBuildFilename ==
    /\ fn = "build_filename" /\ ncalls = 0
    /\ ret' = build_filename(args[1], args[2], args[3], args[4])
    /\ ncalls' = 1
    /\ UNCHANGED <<pageVars, fn, args, ret2>>

\* wrap_content_for_download(content, meta)
CallWrapContent ==
    /\ fn = "wrap_content_for_download" /\ ncalls = 0
    /\ ret' = wrap_content_for_download(args[1], args[2])
    /\ ncalls' = 1
    /\ UNCHANGED <<pageVars, fn, args, ret2>>

\* generate_content(...) up to chain.invoke(inputs): ret is the mapping substituted
CallGenerateContent ==
    /\ fn = "generate_content" /\ ncalls = 0
    /\ ret' = inputs(args[1], args[2], args[3], args[4], args[5], args[6])
    /\ ncalls' = 1
    /\ UNCHANGED <<pageVars, fn, args, ret2>>

FnNext ==
    \/ CallSlugify
    \/ CallSlugifyAgain
    \/ CallBuildFilename
    \/ CallWrapContent
    \/ CallGenerateContent

FnSpec == FnInit /\ [][FnNext]_vars

\* ------------------------------------------------ main(): one script run
FieldChar == {"A", " "}
\* what the user can have typed into a text field
FieldTexts == StrUpTo(FieldChar, MaxField)
\* what the user can have typed into the text area
ExtraTexts == {<<>>, <<" ", "A", " ">>}

\* the texts chain.invoke can return (the empty one too), when it does not raise
RemoteTexts == {<<>>, <<" ", "H", "i", "\n">>}

\* the required-input check with "and" for "or"
MissingInputBoth(bt, ta) == bt = <<>> /\ ta = <<>>

\* not business_type or not target_audience
MissingInput(bt, ta) == bt = <<>> \/ ta = <<>>

\* a run that keeps the last output on the page when the button was not clicked
RunIdleKeepsOutput ==
    [ calls |-> 0, remote |-> "none", prompt |-> NoPrompt,
      rendered |-> rendered \cap {"output", "download"},
      output_text |-> output_text, download_text |-> download_text,
      filename |-> filename ]

\* generate_btn is False: nothing below the divider
RunIdle ==
    [ calls |-> 0, remote |-> "none", prompt |-> NoPrompt, rendered |-> {},
      output_text |-> <<>>, download_text |-> <<>>, filename |-> <<>> ]

\* st.warning(...); return
RunWarning ==
    [ calls |-> 0, remote |-> "none", prompt |-> NoPrompt, rendered |-> {"warning"},
      output_text |-> <<>>, download_text |-> <<>>, filename |-> <<>> ]

\* the except branch calling generate_content a second time
RunRaisedRetry(p) ==
    [ calls |-> 2, remote |-> "raised", prompt |-> p,
      rendered |-> {"error", "exception"},
      output_text |-> <<>>, download_text |-> <<>>, filename |-> <<>> ]

\* except Exception: st.error(...); st.exception(exc); return
RunRaised(p) ==
    [ calls |-> 1, remote |-> "raised", prompt |-> p,
      rendered |-> {"error", "exception"},
      output_text |-> <<>>, download_text |-> <<>>, filename |-> <<>> ]

BusinessTypeKey == <<"B", "u", "s", "i", "n", "e", "s", "s", " ", "t", "y", "p", "e">>
TargetAudienceKey == <<"T", "a", "r", "g", "e", "t", " ", "a", "u", "d", "i", "e", "n", "c", "e">>
ToneKey == <<"T", "o", "n", "e">>
PlatformKey == <<"P", "l", "a", "t", "f", "o", "r", "m">>
ContentTypeKey == <<"C", "o", "n", "t", "e", "n", "t", " ", "t", "y", "p", "e">>

\* st.success, st.markdown(output_text), the meta mapping, st.download_button
RunSuccess(p, text, bt, ta, tn, pf, ctl, now) ==
    LET meta == << <<BusinessTypeKey, bt>>, <<TargetAudienceKey, ta>>, <<ToneKey, tn>>,
                   <<PlatformKey, pf>>, <<ContentTypeKey, ctl>> >>
    IN  [ calls |-> 1, remote |-> "ok", prompt |-> p,
          rendered |-> {"success", "output", "download"},
          output_text |-> text,
          download_text |-> wrap_content_for_download(text, meta),
          filename |-> build_filename(bt, pf, ctl, now) ]

\* the runs of main() below the divider that are possible with these widget
\* values and this return value of st.button: one for each way the remote call
\* can end and each instant utcnow() can return
main(bt, ta, tn, pf, ctl, ex, btn) ==
    IF ~btn THEN {RunIdle}
    ELSE IF MissingInput(bt, ta) THEN {RunWarning}
    ELSE LET p == inputs(bt, ta, tn, pf, content_type_label_map(ctl), ex)
         IN  {RunRaised(p)}
                \cup {RunSuccess(p, text, bt, ta, tn, pf, ctl, now) :
                        text \in RemoteTexts, now \in Clock}

\* the interaction `by` leaves the widgets at these values and reruns the script;
\* st.button returns True only in the run its click started
Rerun(bt, ta, tn, pf, ctl, ex, by) ==
    /\ business_type' = bt /\ target_audience' = ta /\ tone' = tn
    /\ platform' = pf /\ content_type_label' = ctl /\ extra_instructions' = ex
    /\ trigger' = by
    /\ generate_btn' = (by = "generate")
    /\ \E run \in main(bt, ta, tn, pf, ctl, ex, by = "generate") :
          /\ calls' = run.calls /\ remote' = run.remote /\ prompt' = run.prompt
          /\ rendered' = run.rendered /\ output_text' = run.output_text
          /\ download_text' = run.download_text /\ filename' = run.filename
    /\ UNCHANGED fnVars

SetBusinessType ==
    \E s \in FieldTexts \ {business_type} :
        Rerun(s, target_audience, tone, platform, content_type_label,
              extra_instructions, "edit")

SetTargetAudience ==
    \E s \in FieldTexts \ {target_audience} :
        Rerun(business_type, s, tone, platform, content_type_label,
              extra_instructions, "edit")

SetTone ==
    \E i \in DOMAIN Tones :
        /\ Tones[i] # tone
        /\ Rerun(business_type, target_audience, Tones[i], platform,
                 content_type_label, extra_instructions, "edit")

SetPlatform ==
    \E i \in DOMAIN Platforms :
        /\ Platforms[i] # platform
        /\ Rerun(business_type, target_audience, tone, Platforms[i],
                 content_type_label, extra_instructions, "edit")

SetContentType ==
    \E i \in DOMAIN ContentTypeLabels :
        /\ ContentTypeLabels[i] # content_type_label
        /\ Rerun(business_type, target_audience, tone, platform,
                 ContentTypeLabels[i], extra_instructions, "edit")

SetExtraInstructions ==
    \E s \in ExtraTexts \ {extra_instructions} :
        Rerun(business_type, target_audience, tone, platform, content_type_label,
              s, "edit")

\* the "Generate content" button
ClickGenerate ==
    Rerun(business_type, target_audience, tone, platform, content_type_label,
          extra_instructions, "generate")

\* the "Download as .txt" button, there only when the last run rendered it
ClickDownload ==
    /\ "download" \in rendered
    /\ Rerun(business_type, target_audience, tone, platform, content_type_label,
             extra_instructions, "download")

Init == PageInit /\ NoCall

Next ==
    \/ SetBusinessType
    \/ SetTargetAudience
    \/ SetTone
    \/ SetPlatform
    \/ SetContentType
    \/ SetExtraInstructions
    \/ ClickGenerate
    \/ ClickDownload

Spec == Init /\ [][Next]_vars

\* ------------------------------------------------------------ properties
Returned(f) == fn = f /\ ncalls >= 1

HasSpace(s) == \E i \in 1..Len(s) : IsSpace(s[i])
LeadingHyphen(s) == s # <<>> /\ s[1] = "-"
TrailingHyphen(s) == s # <<>> /\ s[Len(s)] = "-"

\* C1 as stated: the slug _slugify returns has no leading hyphen, no trailing
\* hyphen and no whitespace character, for every input string.
C1_SlugNoEdgeHyphen ==
    Returned("_slugify") =>
        ~LeadingHyphen(ret) /\ ~TrailingHyphen(ret) /\ ~HasSpace(ret)

\* C1 as amended: the slug has no whitespace character anywhere, and it has a
\* leading (trailing) hyphen exactly when the input, with the surrounding
\* whitespace removed, begins (ends) with "-" or "/".
C1_SlugEdges ==
    Returned("_slugify") =>
        LET t == strip(args[1])
        IN  /\ ~HasSpace(ret)
            /\ LeadingHyphen(ret) <=> (t # <<>> /\ t[1] \in {"-", "/"})
            /\ TrailingHyphen(ret) <=> (t # <<>> /\ t[Len(t)] \in {"-", "/"})

C1_Witness ==
    /\ Returned("_slugify")
    /\ Len(args[1]) = 3 /\ args[1][1] = "/" /\ args[1][2] = " " /\ args[1][3] = "A"
    /\ ret = <<"-", "-", "a">>

\* C4: _slugify is idempotent: applied to the slug it returned, it returns that
\* slug unchanged.
C4_SlugifyIdempotent == (fn = "_slugify" /\ ncalls = 2) => ret2 = ret

C4_Witness ==
    /\ fn = "_slugify" /\ ncalls = 2
    /\ ret # args[1] /\ Len(ret) = 3 /\ ret2 = ret

\* the value of a string of decimal digits
DigitVal(c) == CHOOSE d \in 0..9 : DigitChars[d + 1] = c
RECURSIVE Num(_)
Num(s) == IF s = <<>> THEN 0 ELSE 10 * Num(SubSeq(s, 1, Len(s) - 1)) + DigitVal(s[Len(s)])

IsDigits(s) == \A i \in 1..Len(s) : \E d \in 1..10 : DigitChars[d] = s[i]

\* YYYYMMDD-HHMMSS of the instant t
IsTimestampOf(ts, t) ==
    /\ Len(ts) = 15 /\ ts[9] = "-"
    /\ IsDigits(SubSeq(ts, 1, 8)) /\ IsDigits(SubSeq(ts, 10, 15))
    /\ Num(SubSeq(ts, 1, 4)) = t.year /\ Num(SubSeq(ts, 5, 6)) = t.month
    /\ Num(SubSeq(ts, 7, 8)) = t.day /\ Num(SubSeq(ts, 10, 11)) = t.hour
    /\ Num(SubSeq(ts, 12, 13)) = t.minute /\ Num(SubSeq(ts, 14, 15)) = t.second

\* the non-empty ones of three slugs, in their order, with a hyphen between
\* neighbours
HyphenJoined(s1, s2, s3) ==
    s1 \o (IF s1 # <<>> /\ (s2 # <<>> \/ s3 # <<>>) THEN <<"-">> ELSE <<>>)
       \o s2 \o (IF s2 # <<>> /\ s3 # <<>> THEN <<"-">> ELSE <<>>) \o s3

C3_FilenameNoSlash ==
    Returned("build_filename") => ret # <<>> /\ \A i \in 1..Len(ret) : ret[i] # "/"

C3_Witness ==
    /\ Returned("build_filename")
    /\ \E i \in 1..Len(args[1]) : args[1][i] = "/"
    /\ args[2] = <<"/">>

\* str.split("\n"): the lines of a text, cut at its line breaks
Breaks(s) == {i \in 1..Len(s) : s[i] = "\n"}
NthOf(S, n) == CHOOSE b \in S : Cardinality({x \in S : x < b}) = n - 1
Lines(s) ==
    [n \in 1..(Cardinality(Breaks(s)) + 1) |->
        SubSeq(s, NthOf(Breaks(s) \cup {0}, n) + 1,
                  NthOf(Breaks(s) \cup {Len(s) + 1}, n) - 1)]

\* the "Key: Value" lines the entries with a non-empty value call for, in the
\* mapping's order
KeyValueLines(meta) ==
    LET kept == SelectSeq(meta, LAMBDA e : e[2] # None /\ Len(e[2]) > 0)
    IN  [i \in 1..Len(kept) |-> kept[i][1] \o <<":", " ">> \o kept[i][2]]

\* in the text out, the lines between the title's separator line and the blank
\* line before the "Generated Content" header are exactly the lines want
MetaBlockIs(out, want) ==
    LET L == Lines(out)
        k == Len(want)
    IN  /\ Len(L) >= k + 4
        /\ L[1] = TitleLine /\ L[2] = TitleRule
        /\ \A i \in 1..k : L[2 + i] = want[i]
        /\ L[k + 3] = <<>> /\ L[k + 4] = SectionLine

NoLineBreak(meta) ==
    \A i \in 1..Len(meta) :
        /\ \A j \in 1..Len(meta[i][1]) : meta[i][1][j] # "\n"
        /\ meta[i][2] # None => \A j \in 1..Len(meta[i][2]) : meta[i][2][j] # "\n"

\* C5 as stated: for every content and every ordered metadata mapping, the
\* output of wrap_content_for_download holds, between the title's separator line
\* and the blank line before the "Generated Content" header, exactly one line
\* "Key: Value" per entry with a non-empty value, in insertion order, and no
\* line for an entry whose value is empty or falsy.
C5_MetaBlockAnyMapping ==
    Returned("wrap_content_for_download") => MetaBlockIs(ret, KeyValueLines(args[2]))

\* C5 as amended: the same, for the mappings whose keys and values hold no line
\* break.
C5_MetaBlock ==
    (Returned("wrap_content_for_download") /\ NoLineBreak(args[2])) =>
        MetaBlockIs(ret, KeyValueLines(args[2]))

C5_Witness ==
    /\ Returned("wrap_content_for_download")
    /\ args[2] = << <<<<"K">>, <<>>>>, <<<<"T">>, <<"a">>>> >>
    /\ Lines(ret)[3] = <<"T", ":", " ", "a">>

\* r is s without its leading and trailing whitespace
IsTrimOf(r, s) ==
    /\ ~(r # <<>> /\ (IsSpace(r[1]) \/ IsSpace(r[Len(r)])))
    /\ \E i \in 0..Len(s) :
          /\ i + Len(r) <= Len(s)
          /\ SubSeq(s, i + 1, i + Len(r)) = r
          /\ \A j \in 1..Len(s) : (j <= i \/ j > i + Len(r)) => IsSpace(s[j])

\* r is s with every letter in lower case
IsLowerOf(r, s) ==
    /\ Len(r) = Len(s)
    /\ \A i \in 1..Len(s) :
          /\ \A u \in DOMAIN UpperLetters : r[i] # UpperLetters[u]
          /\ r[i] = s[i] \/ \E u \in DOMAIN UpperLetters :
                                s[i] = UpperLetters[u] /\ r[i] = LowerLetters[u]

Blank(s) == s = None \/ \A i \in 1..Len(s) : IsSpace(s[i])

\* C6: the values generate_content substitutes into the template are: tone and
\* content_type lowercased and trimmed; business_type, target_audience and
\* platform trimmed, case unchanged; extra_instructions trimmed, and exactly
\* "N/A" when it is absent, empty or whitespace-only.
C6_InputsNormalised ==
    Returned("generate_content") =>
        /\ IsTrimOf(ret.business_type, args[1])
        /\ IsTrimOf(ret.target_audience, args[2])
        /\ \E m \in StrUpTo(ArgChar \cup {"a"}, Len(args[3])) :
              IsLowerOf(m, args[3]) /\ IsTrimOf(ret.tone, m)
        /\ IsTrimOf(ret.platform, args[4])
        /\ \E m \in StrUpTo(ArgChar \cup {"a"}, Len(args[5])) :
              IsLowerOf(m, args[5]) /\ IsTrimOf(ret.content_type, m)
        /\ IF Blank(args[6]) THEN ret.extra_instructions = NA
           ELSE IsTrimOf(ret.extra_instructions, args[6])

C6_Witness ==
    /\ Returned("generate_content")
    /\ args = << <<"A">>, <<" ">>, <<"A">>, <<"A">>, <<" ">>, <<" ">> >>
    /\ ret.tone = <<"a">> /\ ret.business_type = <<"A">>
    /\ ret.content_type = <<>> /\ ret.extra_instructions = NA

Shows(e) == e \in rendered

\* C7: in a run started by "Generate content" with business_type or
\* target_audience empty, a warning is shown, no remote request is issued, and
\* neither the output nor the download button is rendered.
C7_MissingInputWarns ==
    (generate_btn /\ (business_type = <<>> \/ target_audience = <<>>)) =>
        /\ Shows("warning")
        /\ calls = 0 /\ remote = "none"
        /\ ~Shows("output") /\ ~Shows("download")

C7_Witness ==
    /\ generate_btn /\ business_type # <<>> /\ target_audience = <<>>
    /\ Shows("warning") /\ calls = 0

\* C8: in a run whose remote call raises, the error message and the exception
\* detail are shown, the call is not retried (no run issues more than one), and
\* no output, success message or download button is rendered.
C8_FailureIsTerminal ==
    /\ calls <= 1
    /\ remote = "raised" =>
          /\ Shows("error") /\ Shows("exception")
          /\ calls = 1
          /\ ~Shows("output") /\ ~Shows("success") /\ ~Shows("download")

C8_Witness ==
    /\ generate_btn /\ remote = "raised" /\ calls = 1 /\ Shows("error")
    /\ prompt.business_type # <<>>

SuccessfulRun == generate_btn /\ remote = "ok"

\* C9 as stated: the output and the download button are rendered only in a run
\* started by "Generate content" whose remote call returned; in every other run
\* neither is rendered and no remote call is issued.
C9_OnlySuccessfulRunActs ==
    ~SuccessfulRun => ~Shows("output") /\ ~Shows("download") /\ calls = 0

\* C9 as amended: the output and the download button are rendered only in a run
\* started by "Generate content" whose remote call returned; in every other run
\* neither is rendered, and a run not started by "Generate content" (the rerun
\* of any later interaction included) issues no remote call.
C9_OutputOnlyInSuccessfulRun ==
    /\ ~SuccessfulRun => ~Shows("output") /\ ~Shows("download")
    /\ ~generate_btn => calls = 0 /\ remote = "none"

C9_Witness ==
    /\ trigger = "download" /\ ~generate_btn
    /\ rendered = {} /\ calls = 0 /\ output_text = <<>>

\* C10: whenever main issues a remote request, the business_type and
\* target_audience substituted into the prompt are both non-empty, also when
\* the form fields hold only whitespace.
C10_PromptFieldsNonEmpty ==
    calls > 0 => prompt.business_type # <<>> /\ prompt.target_audience # <<>>

====
